---- MODULE Spec2Model ----
(***************************************************************************)
(* rehearsal_folder: an agenda document in a Drive store links folders;    *)
(* for every linked folder the newest version sub-folder is resolved, its  *)
(* PDF files are filtered by keyword, and the matches are copied into a    *)
(* freshly (re)created output folder.                                      *)
(*                                                                         *)
(* Two revisions of the program are modelled: the class based one          *)
(* (drive_io/drive_operators.py, rev = "drive_operators") and the          *)
(* standalone script (main.py, rev = "main").                              *)
(*                                                                         *)
(* Strings are sequences of one-character strings; Drive ids are           *)
(* decimal numerals; a hyperlink target is a sequence of tokens (the       *)
(* fixed pieces the folder-id pattern looks for, and filler).              *)
(* Every backend call (export, list, delete, create, copy) is one step.    *)
(***************************************************************************)
EXTENDS Integers, Sequences, FiniteSets, TLC

\* ------------------------------------------------------------------ bounds
MaxRuns == 2
NumSrc == 3
MaxLinks == 2

\* ----------------------------------------------------------------- strings
\* Unicode code points of the characters the model's names are made of.
CodePoint ==
    (" " :> 32) @@ ("." :> 46) @@
    ("0" :> 48) @@ ("1" :> 49) @@ ("2" :> 50) @@ ("3" :> 51) @@ ("4" :> 52) @@
    ("5" :> 53) @@ ("6" :> 54) @@ ("7" :> 55) @@ ("8" :> 56) @@ ("9" :> 57) @@
    ("B" :> 66) @@ ("I" :> 73) @@ ("M" :> 77) @@ ("N" :> 78) @@ ("O" :> 79) @@
    ("P" :> 80) @@ ("V" :> 86) @@
    ("a" :> 97) @@ ("b" :> 98) @@ ("i" :> 105) @@ ("m" :> 109) @@ ("n" :> 110) @@
    ("o" :> 111) @@ ("p" :> 112) @@ ("t" :> 116) @@ ("u" :> 117) @@ ("v" :> 118) @@ ("x" :> 120)

\* str.casefold() on the model's alphabet: upper case letters fold to lower case.
FoldedChar ==
    ("B" :> "b") @@ ("I" :> "i") @@ ("M" :> "m") @@ ("N" :> "n") @@ ("O" :> "o") @@
    ("P" :> "p") @@ ("V" :> "v")

casefold(s) ==
    [k \in 1..Len(s) |-> IF s[k] \in DOMAIN FoldedChar THEN FoldedChar[s[k]] ELSE s[k]]

\* Python's `a in b` for strings: a is a contiguous substring of b.
str_in(a, b) ==
    \E s \in 0..(Len(b) - Len(a)) : SubSeq(b, s + 1, s + Len(a)) = a

\* Python's `a < b` for strings: lexicographic by code point, a proper prefix is less.
str_lt(a, b) ==
    \E k \in 1..(Len(b)) :
        /\ k <= Len(a) + 1
        /\ \A j \in 1..(k - 1) : a[j] = b[j]
        /\ \/ k = Len(a) + 1
           \/ CodePoint[a[k]] < CodePoint[b[k]]

Digits == <<"0", "1", "2", "3", "4", "5", "6", "7", "8", "9">>

\* '%d' % i for i >= 0
RECURSIVE format_d(_)
format_d(i) ==
    IF i < 10 THEN <<Digits[i + 1]>>
    ELSE format_d(i \div 10) \o <<Digits[(i % 10) + 1]>>

\* '%d. %s' % (i, name)
format_copy_name(i, name) == format_d(i) \o <<".", " ">> \o name

\* ------------------------------------------------------------ Drive store
PDF == "application/pdf"
FOLDER == "application/vnd.google-apps.folder"
GDOC == "application/vnd.google-apps.document"

\* Drive ids are strings; the model's ids are the decimal numerals.
DriveId(n) == format_d(n)

ROOT == DriveId(0)

Item(n, name, mime, parent, trashed) ==
    [id |-> DriveId(n), name |-> name, mimeType |-> mime, parent |-> parent, trashed |-> trashed]

\* files().list(q="'<folder_id>' in parents"): the children, in listing order
\* (trashed children included: the query does not exclude them).
files_list_in_parents(d, folder_id) ==
    SelectSeq(d, LAMBDA f : f.parent = folder_id)

\* (mutant) the query asks for trashed = true
files_list_output_folders_trashed(d, parent, name) ==
    SelectSeq(d, LAMBDA f : /\ f.parent = parent
                            /\ f.name = name
                            /\ f.mimeType = FOLDER
                            /\ f.trashed)

\* (mutant) the query has no mimeType condition
files_list_output_folders_any_type(d, parent, name) ==
    SelectSeq(d, LAMBDA f : /\ f.parent = parent
                            /\ f.name = name
                            /\ ~f.trashed)

\* files().list(q="'<parent>' in parents and name = '<name>' and
\*                 mimeType = '...folder' and trashed = false")
files_list_output_folders(d, parent, name) ==
    SelectSeq(d, LAMBDA f : /\ f.parent = parent
                            /\ f.name = name
                            /\ f.mimeType = FOLDER
                            /\ ~f.trashed)

Ids(d) == {d[k].id : k \in 1..Len(d)}

\* The ids of S and of everything below S.
RECURSIVE Below(_, _)
Below(d, S) ==
    LET more == S \cup {d[k].id : k \in {j \in 1..Len(d) : d[j].parent \in S}}
    IN  IF more = S THEN S ELSE Below(d, more)

\* files().delete(fileId=id): permanently deletes the item and, for a folder,
\* everything below it.
files_delete(d, id) ==
    LET gone == Below(d, {id})
    IN  SelectSeq(d, LAMBDA f : f.id \notin gone)

\* files().create(body={name, parents: [parent], mimeType: folder})
files_create(d, n, name, parent) ==
    Append(d, Item(n, name, FOLDER, parent, FALSE))

ItemOf(d, id) == CHOOSE f \in {d[k] : k \in 1..Len(d)} : f.id = id

\* files().copy(fileId=id, body={name, parents: [parent]})
files_copy(d, n, id, name, parent) ==
    Append(d, Item(n, name, ItemOf(d, id).mimeType, parent, FALSE))

\* ------------------------------------------------- agenda document (HTML)
\* The exported HTML as BeautifulSoup sees it: a sequence of top-level nodes,
\* each a hyperlink (tag "a") or a table holding hyperlinks (kids).
\* href is the link target as tokens; contents are the link's child nodes.
Q_DRIVE == "q=https://drive.google.com/"
FOLDERS == "/folders/"

Anchor(has_href, href, contents) ==
    [tag |-> "a", has_href |-> has_href, href |-> href, contents |-> contents,
     kids |-> <<>>]

Table(kids) ==
    [tag |-> "table", has_href |-> FALSE, href |-> <<>>, contents |-> <<>>,
     kids |-> kids]

\* (mutant) without an n-th table the whole document is searched
select_one_table_or_document(soup, n) ==
    LET tables == SelectSeq(soup, LAMBDA e : e.tag = "table")
    IN  IF n \in 1..Len(tables) THEN <<tables[n]>> ELSE soup

\* soup.select_one('table:nth-of-type(n)'): the n-th table, or None (<<>>).
select_one_table(soup, n) ==
    LET tables == SelectSeq(soup, LAMBDA e : e.tag = "table")
    IN  IF n \in 1..Len(tables) THEN <<tables[n]>> ELSE <<>>

\* soup.find_all('a', href=True): the hyperlinks with a target, in document order.
RECURSIVE find_all_a(_)
find_all_a(soup) ==
    IF soup = <<>> THEN <<>>
    ELSE LET e == Head(soup)
         IN  (IF e.tag = "a"
              THEN (IF e.has_href THEN <<e>> ELSE <<>>)
              ELSE find_all_a(e.kids)) \o find_all_a(Tail(soup))

\* The characters the pattern accepts after the folder id:
\* '[&?]' in drive_operators.py, '[&|?]' in main.py.
IdTerminators(rev) ==
    IF rev = "main" THEN {"&", "|", "?"} ELSE {"&", "?"}

\* re.search('q=https://drive.google.com/.*/folders/(.*?)[&?]', href):
\* leftmost start, greedy '.*' (the last '/folders/' that a terminator follows),
\* lazy group (up to the first terminator after it).
re_search_folder_id(href, rev) ==
    LET n == Len(href)
        starts == {p \in 1..n : href[p] = Q_DRIVE}
        ends(f) == {t \in (f + 1)..n : href[t] \in IdTerminators(rev)}
        cands == {f \in 1..n : /\ href[f] = FOLDERS
                               /\ \E p \in starts : p < f
                               /\ ends(f) # {}}
    IN  IF cands = {} THEN [matched |-> FALSE, group |-> <<>>]
        ELSE LET f == CHOOSE x \in cands : \A y \in cands : y <= x
                 t == CHOOSE x \in ends(f) : \A y \in ends(f) : x <= y
             IN  [matched |-> TRUE, group |-> SubSeq(href, f + 1, t - 1)]

\* The loop over the links of get_linked_folders / get_folders. A matching link
\* without child nodes makes link.contents[0] raise IndexError.
RECURSIVE links_loop(_, _, _, _)
links_loop(links, k, folders, rev) ==
    IF k > Len(links) THEN [raised |-> FALSE, folders |-> folders]
    ELSE LET link == links[k]
             m == re_search_folder_id(link.href, rev)
         IN  IF m.matched
             THEN IF link.contents = <<>>
                  THEN [raised |-> TRUE, folders |-> folders]
                  ELSE links_loop(links, k + 1,
                           Append(folders, [id |-> m.group, name |-> link.contents[1]]),
                           rev)
             ELSE links_loop(links, k + 1, folders, rev)

\* AgendaFileReader.get_linked_folders / main.get_folders on the exported html.
get_linked_folders(html, table_number, rev) ==
    IF table_number # 0
    THEN LET soup == select_one_table(html, table_number)
         IN  IF soup = <<>> THEN [raised |-> FALSE, folders |-> <<>>]
             ELSE links_loop(find_all_a(soup), 1, <<>>, rev)
    ELSE links_loop(find_all_a(html), 1, <<>>, rev)

\* ------------------------------------------------ folder search helpers
\* (mutant) every entry of the listing counts as a PDF file
pdf_files_of_any(files) == files

pdf_files_of(files) == SelectSeq(files, LAMBDA f : f.mimeType = PDF)

folders_of(files) == SelectSeq(files, LAMBDA f : f.mimeType = FOLDER)

\* (mutant) the minimum is taken instead of the maximum
RECURSIVE min_loop(_, _, _)
min_loop(folders, k, best) ==
    IF k > Len(folders) THEN best
    ELSE min_loop(folders, k + 1,
                  IF str_lt(folders[k].name, best.name) THEN folders[k] ELSE best)

min_by_name(folders) == min_loop(folders, 2, folders[1])

\* (mutant) among equally named folders the last one wins
RECURSIVE max_loop_last(_, _, _)
max_loop_last(folders, k, best) ==
    IF k > Len(folders) THEN best
    ELSE max_loop_last(folders, k + 1,
                       IF str_lt(folders[k].name, best.name) THEN best ELSE folders[k])

\* max(folders, key=lambda folder: folder['name']): the first of the maximal ones.
RECURSIVE max_loop(_, _, _)
max_loop(folders, k, best) ==
    IF k > Len(folders) THEN best
    ELSE max_loop(folders, k + 1,
                  IF str_lt(best.name, folders[k].name) THEN folders[k] ELSE best)

max_by_name(folders) == max_loop(folders, 2, folders[1])

\* (mutant) the comparison is case-sensitive
RECURSIVE keyword_loop_cased(_, _, _, _)
keyword_loop_cased(file, keywords, k, file_ids) ==
    IF k > Len(keywords) THEN file_ids
    ELSE IF str_in(keywords[k], file.name)
         THEN Append(file_ids, <<file.id, file.name>>)
         ELSE keyword_loop_cased(file, keywords, k + 1, file_ids)

\* (mutant) the loop over the keywords has no break
RECURSIVE keyword_loop_no_break(_, _, _, _)
keyword_loop_no_break(file, keywords, k, file_ids) ==
    IF k > Len(keywords) THEN file_ids
    ELSE keyword_loop_no_break(file, keywords, k + 1,
             IF str_in(casefold(keywords[k]), casefold(file.name))
             THEN Append(file_ids, <<file.id, file.name>>)
             ELSE file_ids)

\* for keyword in keywords: if keyword.casefold() in name.casefold(): append; break
RECURSIVE keyword_loop(_, _, _, _)
keyword_loop(file, keywords, k, file_ids) ==
    IF k > Len(keywords) THEN file_ids
    ELSE IF str_in(casefold(keywords[k]), casefold(file.name))
         THEN Append(file_ids, <<file.id, file.name>>)
         ELSE keyword_loop(file, keywords, k + 1, file_ids)

\* for file in pdf_files: ...
RECURSIVE file_loop(_, _, _, _)
file_loop(pdf_files, j, keywords, file_ids) ==
    IF j > Len(pdf_files) THEN file_ids
    ELSE file_loop(pdf_files, j + 1, keywords,
                   keyword_loop(pdf_files[j], keywords, 1, file_ids))

keyword_filter(pdf_files, keywords) == file_loop(pdf_files, 1, keywords, <<>>)

\* --------------------------------------------------- decisions of the code
\* (mutant) the pipeline goes on whatever the extraction found
has_linked_folders_always(folders) == TRUE

\* `if len(folders) != 0:` of AgendaProcessor.process and of main
has_linked_folders(folders) == Len(folders) # 0

\* (mutant) without PDFs the newest subfolder is looked for, whether there is one or not
should_descend_unless_pdfs(pdf_files, folders) == Len(pdf_files) = 0

\* (mutant) subfolders are searched even when the folder holds PDFs
should_descend_any(pdf_files, folders) == Len(folders) # 0

\* `if len(pdf_files) == 0:` ... `if len(folders) != 0:`: descend into a subfolder
should_descend(pdf_files, folders) == Len(pdf_files) = 0 /\ Len(folders) # 0

\* (mutant) the recursive call is given the folder it is in
descend_into_self(folder_id, last_folder) == folder_id

\* the argument of the recursive call: last_folder['id']
descend_into(folder_id, last_folder) == last_folder.id

\* (mutant) an empty result is appended to the manifest too
append_group_always(file_ids, matching_file_ids) == Append(file_ids, matching_file_ids)

\* `if not matching_file_ids: continue` / `file_ids.append(matching_file_ids)`
append_group(file_ids, matching_file_ids) ==
    IF matching_file_ids = <<>> THEN file_ids ELSE Append(file_ids, matching_file_ids)

\* (mutant) the loop over the results starts at the second one
folders_to_delete_but_first(results) ==
    IF results = <<>> THEN <<>> ELSE Tail(results)

\* `for result in results['files']: ... delete(fileId=result['id'])`
folders_to_delete(results) == results

\* `i = 0` before the copy loop
first_index == 0

\* (mutant) the index is not advanced
index_after_group_stuck(i) == i

\* `i += 1` after the inner loop over a group
index_after_group(i) == i + 1

\* The position (group g, file k, index i) of the next copy at or after (g, k):
\* groups without files are passed over, each consuming an index.
RECURSIVE copy_position(_, _, _, _)
copy_position(file_ids, g, k, i) ==
    IF g > Len(file_ids) THEN [g |-> g, k |-> 1, i |-> i]
    ELSE IF k > Len(file_ids[g])
         THEN copy_position(file_ids, g + 1, 1, index_after_group(i))
         ELSE [g |-> g, k |-> k, i |-> i]

\* ------------------------------------------------------------ configuration
output_folder_parent == DriveId(3)
output_folder_name == <<"O", "u", "t">>

Revs == {"drive_operators", "main"}
Procs == {1, 2}

\* ------------------------------------------------------------------- state
VARIABLES
    drive,          \* the Drive store: items in listing order
    next_id,        \* the number the backend gives the next created item
    html,           \* the agenda document as exported
    table_number,   \* --from-table / AgendaFileReader.table_number
    keywords,       \* KeywordFileSearcher.keywords / the parsed keyword list
    rev,            \* the revision of the program that is installed
    run,            \* per process: the position and locals of its pipeline run
    runs_started,   \* pipeline invocations so far
    drive0,         \* the store before the first run (history)
    outputs,        \* per completed run with output: its folder and contents (history)
    overlapped      \* a run was started while another one was under way (history)

vars ==
    <<drive, next_id, html, table_number, keywords, rev, run, runs_started, drive0, outputs,
      overlapped>>

\* ------------------------------------------------------- initial stores
NameA == <<"a">>
NameB == <<"b">>
NameP == <<"P">>
NameV1 == <<"v", "1">>
NameV2 == <<"v", "2">>
NameMin == <<"M", "i", "n">>
NameMIN == <<"M", "I", "N">>
NameAb == <<"a", "b">>

\* The two folders the agenda links (1, 2) and the output parent (3).
Skeleton ==
    << Item(1, NameA, FOLDER, ROOT, FALSE),
       Item(2, NameB, FOLDER, ROOT, FALSE),
       Item(3, NameP, FOLDER, ROOT, FALSE) >>

SrcShapes ==
    { [mimeType |-> FOLDER, name |-> NameV1],
      [mimeType |-> FOLDER, name |-> NameV2],
      [mimeType |-> PDF, name |-> NameMin],
      [mimeType |-> PDF, name |-> NameAb],
      [mimeType |-> GDOC, name |-> NameMin] }

\* b/Min.pdf: the second linked folder holds one PDF.
SrcB == << Item(4, NameMin, PDF, DriveId(2), FALSE) >>

ParentChoices(s) ==
    {DriveId(1)} \cup {s[k].id : k \in {j \in 1..Len(s) : s[j].mimeType = FOLDER}}

\* Every forest of n items below the first linked folder: each item is a version
\* folder, a PDF or a document, under the linked folder or under an earlier folder.
RECURSIVE SrcForests(_)
SrcForests(n) ==
    IF n = 0 THEN {<<>>}
    ELSE UNION { { Append(s, Item(Len(Skeleton) + Len(SrcB) + n, sh.name, sh.mimeType,
                                  p, FALSE)) :
                     sh \in SrcShapes, p \in ParentChoices(s) } :
                 s \in SrcForests(n - 1) }

\* a/v1/Min.pdf, a/v1/MIN.pdf, b/ab.pdf, b/Min.pdf
FixedSrc ==
    << Item(4, NameV1, FOLDER, DriveId(1), FALSE),
       Item(5, NameMin, PDF, DriveId(4), FALSE),
       Item(6, NameMIN, PDF, DriveId(4), FALSE),
       Item(7, NameAb, PDF, DriveId(2), FALSE),
       Item(8, NameMin, PDF, DriveId(2), FALSE) >>

\* What the output parent holds before the first run (n: the first free number).
DestVariants(n) ==
    { <<>>,
      << Item(n, output_folder_name, FOLDER, output_folder_parent, FALSE),
         Item(n + 1, NameAb, PDF, DriveId(n), FALSE) >>,
      << Item(n, output_folder_name, FOLDER, output_folder_parent, FALSE),
         Item(n + 1, output_folder_name, FOLDER, output_folder_parent, FALSE) >>,
      << Item(n, output_folder_name, FOLDER, output_folder_parent, TRUE) >>,
      << Item(n, output_folder_name, GDOC, output_folder_parent, FALSE),
         Item(n + 1, NameAb, FOLDER, output_folder_parent, FALSE) >>,
      << Item(n, output_folder_name, FOLDER, DriveId(2), FALSE) >> }

\* ---------------------------------------------------- initial documents
\* A link as the export writes it: https://www.google.com/url?q=<target>&sa=D...
LinkTo(n, terminator) ==
    <<"https://www.google.com/url?", Q_DRIVE, "drive", FOLDERS>>
        \o DriveId(n) \o <<terminator, "sa=D">>

LinkKinds ==
    { Anchor(TRUE, LinkTo(1, "&"), <<"A">>),
      Anchor(TRUE, LinkTo(2, "?"), <<"B">>),
      Anchor(TRUE, <<"https://www.google.com/url?", "q=https://example.org/", "&", "sa=D">>,
             <<"site">>),
      Anchor(TRUE, LinkTo(1, "|"), <<"A">>),
      Anchor(TRUE, LinkTo(2, "&"), <<>>),
      Anchor(FALSE, <<>>, <<"anchor">>) }

RECURSIVE SeqsUpTo(_, _)
SeqsUpTo(S, n) ==
    IF n = 0 THEN {<<>>}
    ELSE SeqsUpTo(S, n - 1)
           \cup {Append(q, x) : q \in {y \in SeqsUpTo(S, n - 1) : Len(y) = n - 1}, x \in S}

\* The links laid out flat, all in one table, or the first in one table and the
\* rest in a second one.
Layouts(links) ==
    { links,
      <<Table(links)>>,
      IF links = <<>> THEN <<>> ELSE <<Table(<<Head(links)>>), Table(Tail(links))>> }

Documents == UNION {Layouts(links) : links \in SeqsUpTo(LinkKinds, MaxLinks)}

DocAB == <<Anchor(TRUE, LinkTo(1, "&"), <<"A">>), Anchor(TRUE, LinkTo(2, "?"), <<"B">>)>>

\* ------------------------------------------------------ initial keywords
KwMin == << <<"m", "i", "n">> >>

\* A keyword no name of the store contains.
KwNone == << <<"x">> >>

KeywordLists ==
    { KwMin,
      << <<"i", "n">>, <<"M">> >>,
      << <<"B">> >>,
      << <<"x">>, <<"a", "b">> >>,
      << <<>> >>,
      <<>> }

PdfNames == {NameMin, NameMIN, NameAb}

\* ---------------------------------------------------------------- scenarios
Scenario(d, h, t, kw) == [drive |-> d, html |-> h, table_number |-> t, keywords |-> kw]

TreeScenarios ==
    {Scenario(Skeleton \o SrcB \o f, DocAB, 0, KwMin) : f \in SrcForests(NumSrc)}

KeywordScenarios ==
    {Scenario(Skeleton \o << Item(4, n1, PDF, DriveId(1), FALSE),
                             Item(5, n2, PDF, DriveId(1), FALSE),
                             Item(6, NameMin, GDOC, DriveId(1), FALSE),
                             Item(7, NameMin, FOLDER, DriveId(1), FALSE),
                             Item(8, NameMin, PDF, DriveId(7), FALSE) >>,
              DocAB, 0, kw) :
        n1 \in PdfNames, n2 \in PdfNames, kw \in KeywordLists}

DocScenarios ==
    {Scenario(Skeleton \o FixedSrc, h, t, KwMin) : h \in Documents, t \in 0..2}

\* The agenda links both folders, or only the second (which needs no descent).
DestScenarios ==
    {Scenario(Skeleton \o FixedSrc \o v, h, 0, kw) :
        v \in DestVariants(Len(Skeleton) + Len(FixedSrc) + 1),
        h \in {DocAB, <<DocAB[2]>>},
        kw \in {KwMin, KwNone}}

Scenarios == TreeScenarios \cup KeywordScenarios \cup DocScenarios \cup DestScenarios

IdleRun ==
    [pc |-> "idle", folders |-> <<>>, fi |-> 1,
     cur |-> ROOT, file_ids |-> <<>>, results |-> <<>>, output_folder_id |-> ROOT,
     g |-> 1, k |-> 1, i |-> 0, calls |-> <<>>, returned |-> <<>>,
     drive_start |-> <<>>, errors |-> {}]

InitWith(scenarios) ==
    \E sc \in scenarios :
        /\ drive = sc.drive
        /\ drive0 = sc.drive
        /\ next_id = Len(sc.drive) + 1
        /\ html = sc.html
        /\ table_number = sc.table_number
        /\ keywords = sc.keywords
        /\ rev \in Revs
        /\ run = [r \in Procs |-> IdleRun]
        /\ runs_started = 0
        /\ outputs = <<>>
        /\ overlapped = FALSE

Init == InitWith(Scenarios)

\* ------------------------------------------------------------------ actions
\* A backend call as the run logs it: ref is the number of the linked folder a
\* list call of the folder search belongs to (0 for the other calls).
Call(op, arg, name, parent, ref) ==
    [op |-> op, arg |-> arg, name |-> name, parent |-> parent, ref |-> ref]

Active(r) == run[r].pc \notin {"idle", "done", "failed"}

\* The children names of a folder, in listing order.
ChildNames(d, id) ==
    LET c == files_list_in_parents(d, id) IN [j \in 1..Len(c) |-> c[j].name]

\* The run has finished with its output folder populated.
Completed(rn, d) ==
    [id |-> rn.output_folder_id, names |-> ChildNames(d, rn.output_folder_id)]

\* (mutant) with an empty manifest the output writer is not called
AfterReturn_unless_empty(rn, matching, calls) ==
    LET file_ids == append_group(rn.file_ids, matching)
        returned == Append(rn.returned, matching)
    IN  IF rn.fi < Len(rn.folders)
        THEN [rn EXCEPT !.calls = calls, !.file_ids = file_ids, !.returned = returned,
                        !.fi = rn.fi + 1, !.cur = rn.folders[rn.fi + 1].id]
        ELSE [rn EXCEPT !.calls = calls, !.file_ids = file_ids, !.returned = returned,
                        !.pc = IF file_ids = <<>> THEN "done" ELSE "list_output"]

\* The run's locals after find_matching_files_in_folder returned matching for
\* linked folder fi: the loop of find_matching_files goes on, or the search is over.
AfterReturn(rn, matching, calls) ==
    LET file_ids == append_group(rn.file_ids, matching)
        returned == Append(rn.returned, matching)
    IN  IF rn.fi < Len(rn.folders)
        THEN [rn EXCEPT !.calls = calls, !.file_ids = file_ids, !.returned = returned,
                        !.fi = rn.fi + 1, !.cur = rn.folders[rn.fi + 1].id]
        ELSE [rn EXCEPT !.calls = calls, !.file_ids = file_ids, !.returned = returned,
                        !.pc = "list_output"]

\* (mutant) a folder whose listing fails counts as a folder without a match
on_backend_error_skip_folder(rn, calls) ==
    IF rn.pc = "list"
    THEN AfterReturn(rn, <<>>, calls)
    ELSE [rn EXCEPT !.pc = "failed", !.calls = calls]

\* (mutant) a failed copy is skipped and the loop goes on with the next file
on_backend_error_skip_copy(rn, calls) ==
    IF rn.pc = "copy"
    THEN LET pos == copy_position(rn.file_ids, rn.g, rn.k + 1, rn.i)
         IN  [rn EXCEPT !.g = pos.g, !.k = pos.k, !.i = pos.i, !.calls = calls,
                        !.pc = IF pos.g > Len(rn.file_ids) THEN "done" ELSE "copy"]
    ELSE [rn EXCEPT !.pc = "failed", !.calls = calls]

\* The run's locals when an exception leaves a call: nothing in process, main
\* or the functions they call catches it, so the run ends there.
on_backend_error(rn, calls) ==
    [rn EXCEPT !.pc = "failed", !.calls = calls]

\* The last call of calls raised HttpError.
HttpError(rn, calls) ==
    on_backend_error([rn EXCEPT !.errors = @ \cup {Len(calls)}], calls)

\* A process starts the pipeline (a program invocation).
Invoke(r) ==
    /\ runs_started < MaxRuns
    /\ ~Active(r)
    /\ run' = [run EXCEPT ![r] =
                  [IdleRun EXCEPT !.pc = "export", !.drive_start = drive]]
    /\ runs_started' = runs_started + 1
    /\ overlapped' = (overlapped \/ \E q \in Procs : Active(q))
    /\ UNCHANGED <<drive, next_id, html, table_number, keywords, rev, drive0, outputs>>

\* Invocations one at a time: the next one starts when the last one has ended.
Start(r) ==
    /\ \A q \in Procs : ~Active(q)
    /\ Invoke(r)

\* export_media + get_linked_folders, and the branch of process / main on its result.
Export(r) ==
    /\ run[r].pc = "export"
    /\ LET res == get_linked_folders(html, table_number, rev)
           calls == Append(run[r].calls, Call("export", <<>>, <<>>, <<>>, 0))
       IN  run' = [run EXCEPT ![r] =
                IF res.raised
                THEN on_backend_error(@, calls)
                ELSE IF has_linked_folders(res.folders)
                     THEN \* find_matching_files: `for folder in folders:`
                          IF Len(res.folders) = 0
                          THEN [@ EXCEPT !.pc = "list_output", !.calls = calls,
                                         !.folders = res.folders]
                          ELSE [@ EXCEPT !.pc = "list", !.calls = calls,
                                         !.folders = res.folders, !.fi = 1,
                                         !.cur = res.folders[1].id]
                     ELSE [@ EXCEPT !.pc = "done", !.calls = calls,
                                    !.folders = res.folders]]
    /\ UNCHANGED <<drive, next_id, html, table_number, keywords, rev, runs_started, drive0,
                   outputs, overlapped>>

\* One invocation of find_matching_files_in_folder: its list call, then either
\* the recursive call (the next step lists the chosen subfolder) or the keyword
\* filter and the return to find_matching_files. In main.py the recursive call
\* passes (id, service, keywords) for (service, folder_id, keywords): the callee
\* raises AttributeError on service.files() before any backend call. max() of
\* an empty sequence raises ValueError.
ListFolder(r) ==
    /\ run[r].pc = "list"
    /\ LET rn == run[r]
           files == files_list_in_parents(drive, rn.cur)
           pdf_files == pdf_files_of(files)
           folders == folders_of(files)
           calls == Append(rn.calls, Call("list", rn.cur, <<>>, <<>>, rn.fi))
       IN  run' = [run EXCEPT ![r] =
                IF should_descend(pdf_files, folders)
                THEN IF folders = <<>> \/ rev = "main"
                     THEN on_backend_error(rn, calls)
                     ELSE [rn EXCEPT !.calls = calls,
                                     !.cur = descend_into(rn.cur, max_by_name(folders))]
                ELSE AfterReturn(rn, keyword_filter(pdf_files, keywords), calls)]
    /\ UNCHANGED <<drive, next_id, html, table_number, keywords, rev, runs_started, drive0,
                   outputs, overlapped>>

\* create_empty_output_folder: the query for existing output folders.
ListOutput(r) ==
    /\ run[r].pc = "list_output"
    /\ LET rn == run[r]
           results == folders_to_delete(
               files_list_output_folders(drive, output_folder_parent, output_folder_name))
       IN  run' = [run EXCEPT ![r] =
                [rn EXCEPT !.results = results,
                           !.pc = IF results = <<>> THEN "create" ELSE "delete",
                           !.calls = Append(rn.calls,
                               Call("list_output", output_folder_parent,
                                    output_folder_name, <<>>, 0))]]
    /\ UNCHANGED <<drive, next_id, html, table_number, keywords, rev, runs_started, drive0,
                   outputs, overlapped>>

\* create_empty_output_folder: one delete call of the loop over the results.
\* Deleting an item that no longer exists fails (HttpError 404).
Delete(r) ==
    /\ run[r].pc = "delete"
    /\ LET rn == run[r]
           id == Head(rn.results).id
           calls == Append(rn.calls, Call("delete", id, <<>>, <<>>, 0))
       IN  IF id \in Ids(drive)
           THEN /\ drive' = files_delete(drive, id)
                /\ run' = [run EXCEPT ![r] =
                      [rn EXCEPT !.results = Tail(rn.results), !.calls = calls,
                                 !.pc = IF Tail(rn.results) = <<>> THEN "create"
                                        ELSE "delete"]]
           ELSE /\ drive' = drive
                /\ run' = [run EXCEPT ![r] = HttpError(rn, calls)]
    /\ UNCHANGED <<next_id, html, table_number, keywords, rev, runs_started, drive0, outputs,
                   overlapped>>

\* create_empty_output_folder: the create call; then the copy loop starts.
Create(r) ==
    /\ run[r].pc = "create"
    /\ LET rn == run[r]
           id == DriveId(next_id)
           pos == copy_position(rn.file_ids, 1, 1, first_index)
           d == files_create(drive, next_id, output_folder_name, output_folder_parent)
           after == [rn EXCEPT !.output_folder_id = id,
                               !.g = pos.g, !.k = pos.k, !.i = pos.i,
                               !.pc = IF pos.g > Len(rn.file_ids) THEN "done" ELSE "copy",
                               !.calls = Append(rn.calls,
                                   Call("create", id, output_folder_name,
                                        output_folder_parent, 0))]
       IN  /\ drive' = d
           /\ run' = [run EXCEPT ![r] = after]
           /\ outputs' = IF after.pc = "done" THEN Append(outputs, Completed(after, d))
                         ELSE outputs
    /\ next_id' = next_id + 1
    /\ UNCHANGED <<html, table_number, keywords, rev, runs_started, drive0, overlapped>>

\* One copy call of create_output_folder_with_files / copy_files_to_folder.
\* Copying a file that no longer exists, or into a folder that no longer
\* exists, fails (HttpError 404).
Copy(r) ==
    /\ run[r].pc = "copy"
    /\ LET rn == run[r]
           pair == rn.file_ids[rn.g][rn.k]
           name == format_copy_name(rn.i, pair[2])
           calls == Append(rn.calls, Call("copy", pair[1], name, rn.output_folder_id, 0))
           pos == copy_position(rn.file_ids, rn.g, rn.k + 1, rn.i)
       IN  IF pair[1] \in Ids(drive) /\ rn.output_folder_id \in Ids(drive)
           THEN LET d == files_copy(drive, next_id, pair[1], name, rn.output_folder_id)
                    after == [rn EXCEPT !.g = pos.g, !.k = pos.k, !.i = pos.i,
                                        !.calls = calls,
                                        !.pc = IF pos.g > Len(rn.file_ids) THEN "done"
                                               ELSE "copy"]
                IN  /\ drive' = d
                    /\ next_id' = next_id + 1
                    /\ run' = [run EXCEPT ![r] = after]
                    /\ outputs' = IF after.pc = "done"
                                  THEN Append(outputs, Completed(after, d))
                                  ELSE outputs
           ELSE /\ run' = [run EXCEPT ![r] = HttpError(rn, calls)]
                /\ UNCHANGED <<drive, next_id, outputs>>
    /\ UNCHANGED <<html, table_number, keywords, rev, runs_started, drive0, overlapped>>

\* The program is run by one process, again and again.
Next ==
    \/ Start(1)
    \/ Export(1)
    \/ ListFolder(1)
    \/ ListOutput(1)
    \/ Delete(1)
    \/ Create(1)
    \/ Copy(1)

Spec == Init /\ [][Next]_vars

\* ------------------------------------------------------ failing backend
\* The backend call a run is about to make.
NextCall(rn) ==
    CASE rn.pc = "export" -> Call("export", <<>>, <<>>, <<>>, 0)
      [] rn.pc = "list" -> Call("list", rn.cur, <<>>, <<>>, rn.fi)
      [] rn.pc = "list_output" ->
             Call("list_output", output_folder_parent, output_folder_name, <<>>, 0)
      [] rn.pc = "delete" -> Call("delete", Head(rn.results).id, <<>>, <<>>, 0)
      [] rn.pc = "create" -> Call("create", <<>>, output_folder_name, output_folder_parent, 0)
      [] rn.pc = "copy" ->
             Call("copy", rn.file_ids[rn.g][rn.k][1],
                  format_copy_name(rn.i, rn.file_ids[rn.g][rn.k][2]), rn.output_folder_id, 0)

CallPcs == {"export", "list", "list_output", "delete", "create", "copy"}

\* service...execute() raises HttpError: the call has no effect on the store.
Fail(r) ==
    /\ run[r].pc \in CallPcs
    /\ run' = [run EXCEPT ![r] = HttpError(@, Append(@.calls, NextCall(@)))]
    /\ UNCHANGED <<drive, next_id, html, table_number, keywords, rev, runs_started, drive0,
                   outputs, overlapped>>

FailScenarios == KeywordScenarios \cup DestScenarios

InitFail == InitWith(FailScenarios)

NextFail ==
    \/ Next
    \/ Fail(1)

FailSpec == InitFail /\ [][NextFail]_vars

\* --------------------------------------------------- simultaneous runs
\* Nothing in the program keeps two invocations apart: each process takes its
\* steps whenever it likes.
InitConc == InitWith(DestScenarios)

NextConc ==
    \E r \in Procs :
        \/ Invoke(r)
        \/ Export(r)
        \/ ListFolder(r)
        \/ ListOutput(r)
        \/ Delete(r)
        \/ Create(r)
        \/ Copy(r)

ConcSpec == InitConc /\ [][NextConc]_vars

\* ------------------------------------------------------------------ claims
Items(d) == {d[k] : k \in 1..Len(d)}

\* The live containers with the destination name under the destination parent.
LiveOutputs(d) ==
    {f \in Items(d) : /\ f.parent = output_folder_parent
                      /\ f.name = output_folder_name
                      /\ f.mimeType = FOLDER
                      /\ ~f.trashed}

CallsOf(r, ops) == {k \in 1..Len(run[r].calls) : run[r].calls[k].op \in ops}

\* C1: a run whose link extraction yields zero folder references issues no
\* create call and no copy call (nor a delete), produces no destination
\* container and leaves the store as it was.
C1_NoFoldersNoOutput ==
    \A r \in Procs :
        (run[r].pc \notin {"idle", "export"} /\ run[r].folders = <<>>)
            => /\ CallsOf(r, {"create", "copy", "delete"}) = {}
               /\ run[r].output_folder_id = ROOT
               /\ drive = run[r].drive_start

\* C1 witness: a document with hyperlinks, none of them a folder link, was
\* processed to the end.
C1_Witness ==
    /\ run[1].pc = "done"
    /\ run[1].folders = <<>>
    /\ find_all_a(html) # <<>>
    /\ CallsOf(1, {"export"}) # {}

\* C2: a completed run replaces the destination container: the only live
\* destination container is the one it created, nothing of the containers it
\* found (nor anything below them) remains, and its contents are those of the
\* previous completed run, neither duplicated nor merged.
C2_RerunReplaces ==
    \A r \in Procs :
        (run[r].pc = "done" /\ run[r].folders # <<>>)
            => LET before == run[r].drive_start
                   old == {f.id : f \in LiveOutputs(before)}
                   n == Len(outputs)
               IN  /\ {f.id : f \in LiveOutputs(drive)} = {run[r].output_folder_id}
                   /\ run[r].output_folder_id \notin Ids(before)
                   /\ Below(before, old) \cap Ids(drive) = {}
                   /\ n >= 1
                   /\ outputs[n].id = run[r].output_folder_id
                   /\ outputs[n].names = ChildNames(drive, run[r].output_folder_id)
                   /\ n >= 2 => outputs[n].names = outputs[n - 1].names

\* C2 witness: the second run completed over the populated destination of the first.
C2_Witness ==
    /\ run[1].pc = "done"
    /\ Len(outputs) = 2
    /\ Len(outputs[1].names) >= 2
    /\ outputs[1].id \in Ids(run[1].drive_start)
    /\ files_list_in_parents(run[1].drive_start, outputs[1].id) # <<>>

\* C3: starting from a parent with at most one live container of the
\* destination name, there is at most one in every state; and whenever the
\* create call is about to be made, every such container has been deleted.
C3_AtMostOneOutput ==
    /\ Cardinality(LiveOutputs(drive0)) <= 1 => Cardinality(LiveOutputs(drive)) <= 1
    /\ \A r \in Procs : run[r].pc = "create" => LiveOutputs(drive) = {}

\* C3 witness: a run found a destination container, deleted it and created the new one.
C3_Witness ==
    /\ Cardinality(LiveOutputs(drive0)) = 1
    /\ run[1].pc \in {"copy", "done"}
    /\ CallsOf(1, {"delete"}) # {}
    /\ CallsOf(1, {"create"}) # {}
    /\ Cardinality(LiveOutputs(drive)) = 1

\* The list calls of the folder search of run r.
ListCalls(r) == CallsOf(r, {"list"})

\* The direct children of c by kind.
PdfKids(c) == pdf_files_of(files_list_in_parents(drive, c))
FolderKids(c) == Items(folders_of(files_list_in_parents(drive, c)))

\* The descent of linked folder ref has returned.
Returned(r, ref) == ref <= Len(run[r].returned)

\* C4: (class revision) after the list call of a container without direct PDFs
\* and with N >= 1 child containers, the very next call of that descent lists
\* one child whose name no other child's name exceeds; no other call of the
\* descent lists any child of the container; and what the descent returns are
\* files below that one child.
C4_DescendsIntoMaxOnly ==
    rev = "drive_operators" =>
    \A r \in Procs : \A k \in ListCalls(r) :
        LET calls == run[r].calls
            c == calls[k].arg
            ref == calls[k].ref
            kids == FolderKids(c)
            chosen == IF k < Len(calls) THEN calls[k + 1].arg ELSE run[r].cur
        IN  (PdfKids(c) = <<>> /\ kids # {})
            => /\ IF k < Len(calls)
                  THEN calls[k + 1].op = "list" /\ calls[k + 1].ref = ref
                  ELSE run[r].pc = "list" /\ run[r].fi = ref
               /\ \E f \in kids : /\ f.id = chosen
                                  /\ \A o \in kids : ~str_lt(f.name, o.name)
               /\ \A j \in ListCalls(r) :
                     (calls[j].ref = ref /\ j # k + 1)
                         => calls[j].arg \notin {f.id : f \in kids}
               /\ Returned(r, ref)
                     => \A m \in 1..Len(run[r].returned[ref]) :
                           run[r].returned[ref][m][1] \in Below(drive, {chosen}) \ {chosen}

\* C4 witness: a container without PDFs and with two differently named child
\* containers was resolved to the end; the child listed first by the backend
\* holds a PDF and is not the chosen one.
C4_Witness ==
    /\ rev = "drive_operators"
    /\ \E k \in ListCalls(1) :
          LET calls == run[1].calls
              c == calls[k].arg
              sub == folders_of(files_list_in_parents(drive, c))
          IN  /\ PdfKids(c) = <<>>
              /\ Len(sub) >= 2
              /\ Returned(1, calls[k].ref)
              /\ k < Len(calls)
              /\ calls[k + 1].arg # sub[1].id
              /\ str_lt(sub[1].name, sub[2].name)
              /\ PdfKids(sub[1].id) # <<>>

\* C5: after the list call of a container with at least one direct PDF, no
\* further list call belongs to that descent (no child container is listed),
\* the descent has returned, and it returned direct PDF children only.
C5_PdfsStopDescent ==
    \A r \in Procs : \A k \in ListCalls(r) :
        LET calls == run[r].calls
            c == calls[k].arg
            ref == calls[k].ref
            pdfs == PdfKids(c)
        IN  pdfs # <<>>
            => /\ \A j \in ListCalls(r) : j > k => calls[j].ref # ref
               /\ Returned(r, ref)
               /\ \A m \in 1..Len(run[r].returned[ref]) :
                     \E n \in 1..Len(pdfs) :
                        run[r].returned[ref][m] = <<pdfs[n].id, pdfs[n].name>>

\* C5 witness: a container with a PDF and a child container (itself holding a
\* matching PDF) was resolved.
C5_Witness ==
    \E k \in ListCalls(1) :
        LET c == run[1].calls[k].arg
        IN  /\ PdfKids(c) # <<>>
            /\ \E f \in FolderKids(c) : PdfKids(f.id) # <<>>
            /\ run[1].pc = "done"

\* The list calls of one descent, in call order.
DescentOf(r, ref) ==
    SelectSeq(run[r].calls, LAMBDA c : c.op = "list" /\ c.ref = ref)

\* C6: a descent never lists a container twice: every list call after the
\* first lists a child container of the container listed just before, which no
\* earlier call of the descent listed; so a descent makes at most as many list
\* calls as the store has containers, and a run that is searching can go on.
C6_DescentTerminates ==
    \A r \in Procs : \A ref \in 1..Len(run[r].folders) :
        LET path == DescentOf(r, ref)
        IN  /\ \A a, b \in 1..Len(path) : a # b => path[a].arg # path[b].arg
            /\ \A a \in 2..Len(path) :
                  \E f \in FolderKids(path[a - 1].arg) : f.id = path[a].arg
            /\ Len(path) <= Cardinality({f \in Items(drive) : f.mimeType = FOLDER})
            /\ (run[r].pc = "list" /\ run[r].fi = ref)
                  => run[r].cur \notin {path[a].arg : a \in 1..Len(path)}

\* C6 witness: a descent two levels deep has returned.
C6_Witness ==
    \E ref \in 1..Len(run[1].folders) :
        /\ Len(DescentOf(1, ref)) >= 3
        /\ Returned(1, ref)

\* One character folded to lower case.
Fold(ch) == casefold(<<ch>>)[1]

\* name contains keyword as a substring, case ignored.
ContainsIgnoringCase(name, keyword) ==
    \E s \in 0..(Len(name) - Len(keyword)) :
        \A t \in 1..Len(keyword) : Fold(name[s + t]) = Fold(keyword[t])

MatchesSomeKeyword(name) ==
    \E q \in 1..Len(keywords) : ContainsIgnoringCase(name, keywords[q])

\* The container a returned descent ended in: the one its last list call listed.
ResolvedContainer(r, ref) ==
    LET path == DescentOf(r, ref) IN path[Len(path)].arg

\* The (id, name) pairs of the entries of a listing.
Pairs(entries) == [j \in 1..Len(entries) |-> <<entries[j].id, entries[j].name>>]

\* C7: what a descent returns is exactly the subsequence, in listing order, of
\* the PDF entries of the resolved container whose name contains at least one
\* keyword as a case-insensitive substring, each such entry once.
C7_FilterIsMatchingSubsequence ==
    \A r \in Procs : \A ref \in 1..Len(run[r].returned) :
        run[r].returned[ref] =
            Pairs(SelectSeq(PdfKids(ResolvedContainer(r, ref)),
                            LAMBDA f : MatchesSomeKeyword(f.name)))

\* C7 witness: of the PDFs of a container one was dropped and one, matched by
\* two keywords and only when case is ignored, was kept.
C7_Witness ==
    \E ref \in 1..Len(run[1].returned) :
        LET pdfs == PdfKids(ResolvedContainer(1, ref))
            got == run[1].returned[ref]
        IN  /\ Len(keywords) >= 2
            /\ got # <<>>
            /\ Len(got) < Len(pdfs)
            /\ \E m \in 1..Len(got) :
                  /\ \A q \in 1..Len(keywords) : ContainsIgnoringCase(got[m][2], keywords[q])
                  /\ \E q \in 1..Len(keywords) : ~str_in(keywords[q], got[m][2])

\* The entries a list of (id, name) pairs stands for.
AsEntries(pairs) ==
    [j \in 1..Len(pairs) |->
        [id |-> pairs[j][1], name |-> pairs[j][2], mimeType |-> PDF]]

\* C8: filtering what the filter returned, with the same keywords, returns it
\* unchanged.
C8_FilterIdempotent ==
    \A r \in Procs : \A ref \in 1..Len(run[r].returned) :
        keyword_filter(AsEntries(run[r].returned[ref]), keywords) = run[r].returned[ref]

\* C8 witness: a result with two files, each matched by two keywords.
C8_Witness ==
    \E ref \in 1..Len(run[1].returned) :
        LET got == run[1].returned[ref]
        IN  /\ Len(got) >= 2
            /\ Len(keywords) >= 2
            /\ \A m \in 1..Len(got) : \A q \in 1..Len(keywords) :
                  ContainsIgnoringCase(got[m][2], keywords[q])

\* The manifest entries in copy order, each with the number of its group.
RECURSIVE Flat(_, _)
Flat(file_ids, g) ==
    IF g > Len(file_ids) THEN <<>>
    ELSE [j \in 1..Len(file_ids[g]) |->
             [group |-> g, id |-> file_ids[g][j][1], name |-> file_ids[g][j][2]]]
         \o Flat(file_ids, g + 1)

\* The name a copy of a file of the g-th group must get (fewer than 11 groups).
ExpectedCopyName(g, name) == <<Digits[g], ".", " ">> \o name

\* C9: the copies are made in manifest order into the container the run
\* created: the j-th copy call copies the j-th manifest entry under the name
\* "<i>. <original name>", i the zero-based number of its group, and the
\* container holds exactly these copies, in this order; all of them once the
\* run is done.
C9_CopiesInManifestOrder ==
    \A r \in Procs :
        run[r].pc \in {"copy", "done"} /\ run[r].folders # <<>>
            => LET flat == Flat(run[r].file_ids, 1)
                   out == run[r].output_folder_id
                   kids == files_list_in_parents(drive, out)
                   copies == SelectSeq(run[r].calls, LAMBDA c : c.op = "copy")
               IN  /\ Len(run[r].file_ids) <= 10
                   /\ Len(kids) = Len(copies)
                   /\ Len(copies) <= Len(flat)
                   /\ run[r].pc = "done" => Len(copies) = Len(flat)
                   /\ \A j \in 1..Len(copies) :
                         /\ copies[j].arg = flat[j].id
                         /\ copies[j].parent = out
                         /\ copies[j].name = ExpectedCopyName(flat[j].group, flat[j].name)
                         /\ kids[j].name = copies[j].name
                         /\ kids[j].mimeType = PDF
                   /\ \E f \in LiveOutputs(drive) : f.id = out

\* C9 witness: a manifest of two groups, the first with two files, was copied.
C9_Witness ==
    /\ run[1].pc = "done"
    /\ Len(run[1].file_ids) = 2
    /\ Len(run[1].file_ids[1]) = 2
    /\ Len(files_list_in_parents(drive, run[1].output_folder_id)) = 3

SearchOver(r) == run[r].pc \in {"list_output", "delete", "create", "copy", "done"}

\* The number of linked folders before ref with at least one match.
MatchedBefore(r, ref) ==
    Cardinality({j \in 1..(ref - 1) : run[r].returned[j] # <<>>})

\* C10: once the search is over, every linked folder has been resolved, the
\* manifest holds the non-empty results in document order and nothing else,
\* and once the run is done every file of a linked folder's result has a copy
\* whose index is the number of earlier linked folders with a match.
C10_EmptyResultsSkipped ==
    \A r \in Procs :
        SearchOver(r)
            => /\ Len(run[r].returned) = Len(run[r].folders)
               /\ run[r].file_ids = SelectSeq(run[r].returned, LAMBDA m : m # <<>>)
               /\ run[r].pc = "done" =>
                     \A ref \in 1..Len(run[r].returned) :
                        \A m \in 1..Len(run[r].returned[ref]) :
                           \E k \in CallsOf(r, {"copy"}) :
                              /\ run[r].calls[k].arg = run[r].returned[ref][m][1]
                              /\ run[r].calls[k].name =
                                    <<Digits[MatchedBefore(r, ref) + 1], ".", " ">>
                                        \o run[r].returned[ref][m][2]

\* C10 witness: the first linked folder had no match, the second had one, and
\* its copy got index 0.
C10_Witness ==
    /\ run[1].pc = "done"
    /\ Len(run[1].returned) = 2
    /\ run[1].returned[1] = <<>>
    /\ run[1].returned[2] # <<>>
    /\ \E f \in Items(drive) :
          /\ f.parent = run[1].output_folder_id
          /\ f.name = <<"0", ".", " ">> \o run[1].returned[2][1][2]

\* The type of the item with this id, in the store the run started with.
TypeAtStart(r, id) == ItemOf(run[r].drive_start, id).mimeType

\* C11: only PDF entries match: no entry of a descent's result, no entry of
\* the manifest and no source of a copy call is a container (or of any type
\* but PDF), whatever its name, and the container the run creates holds PDF
\* files only.
C11_OnlyPdfsMatch ==
    \A r \in Procs :
        /\ \A ref \in 1..Len(run[r].returned) : \A j \in 1..Len(run[r].returned[ref]) :
               TypeAtStart(r, run[r].returned[ref][j][1]) = PDF
        /\ \A g \in 1..Len(run[r].file_ids) : \A j \in 1..Len(run[r].file_ids[g]) :
               TypeAtStart(r, run[r].file_ids[g][j][1]) = PDF
        /\ \A k \in CallsOf(r, {"copy"}) : TypeAtStart(r, run[r].calls[k].arg) = PDF
        /\ \A f \in Items(drive) :
               f.parent = run[r].output_folder_id /\ run[r].output_folder_id # ROOT
               => f.mimeType = PDF

\* A run is done with copies made, and the container its result came from
\* has a child container whose name contains a keyword.
C11_Witness ==
    \E r \in Procs : \E ref \in 1..Len(run[r].returned) :
        /\ run[r].pc = "done"
        /\ run[r].returned[ref] # <<>>
        /\ CallsOf(r, {"copy"}) # {}
        /\ \E f \in Items(run[r].drive_start) :
               /\ f.parent = ResolvedContainer(r, ref)
               /\ f.mimeType = FOLDER
               /\ MatchesSomeKeyword(f.name)
\* The copy calls of a run, in the order they were made.
CopyCalls(r) == SelectSeq(run[r].calls, LAMBDA c : c.op = "copy")

\* The calls of a run that the backend answered with an error.
FailedCalls(r, ops) == {k \in run[r].errors : run[r].calls[k].op \in ops}

\* C12: when a copy call fails the run ends there: the failed call is the
\* last call the run makes (no later copy, no retry, no other failure), the
\* run has failed, and the container it created is still there and holds
\* exactly the copies made before the failure, in order (no rollback).
C12_CopyFailureAborts ==
    \A r \in Procs :
        FailedCalls(r, {"copy"}) # {}
        => /\ run[r].pc = "failed"
           /\ run[r].errors = {Len(run[r].calls)}
           /\ \E f \in LiveOutputs(drive) : f.id = run[r].output_folder_id
           /\ ChildNames(drive, run[r].output_folder_id) =
                  [j \in 1..(Len(CopyCalls(r)) - 1) |-> CopyCalls(r)[j].name]

\* A copy call failed after at least one copy was made and with more than one
\* manifest entry still to copy.
C12_Witness ==
    \E r \in Procs :
        /\ FailedCalls(r, {"copy"}) # {}
        /\ Len(CopyCalls(r)) >= 2
        /\ Len(Flat(run[r].file_ids, 1)) > Len(CopyCalls(r))
        /\ Len(ChildNames(drive, run[r].output_folder_id)) = Len(CopyCalls(r)) - 1
\* The number of tables of the agenda document.
NumTables == Cardinality({k \in 1..Len(html) : html[k].tag = "table"})

\* C13: with a non-zero table selector and fewer tables than that in the
\* document, the run ends right after the export call, without an error:
\* no folder reference, no further call (no list, delete, create or copy)
\* and the store as it was.
C13_MissingTableNoOutput ==
    \A r \in Procs :
        run[r].pc \notin {"idle", "export"} /\ table_number # 0 /\ NumTables < table_number
        => /\ run[r].pc = "done"
           /\ run[r].folders = <<>>
           /\ run[r].errors = {}
           /\ Len(run[r].calls) = 1
           /\ run[r].calls[1].op = "export"
           /\ drive = run[r].drive_start

\* The second table is asked for, the document has one table, which holds a
\* folder link, and the run is over.
C13_Witness ==
    \E r \in Procs :
        /\ run[r].pc = "done"
        /\ table_number = 2
        /\ NumTables = 1
        /\ \E k \in 1..Len(find_all_a(html)) :
               re_search_folder_id(find_all_a(html)[k].href, rev).matched
\* The container a run created is gone while the run is copying into it.
DeletedWhilePopulated(r) ==
    /\ run[r].pc = "copy"
    /\ run[r].output_folder_id \notin Ids(drive)

\* Two or more live destination containers where there was at most one.
TwoLiveOutputs ==
    /\ Cardinality(LiveOutputs(drive0)) <= 1
    /\ Cardinality(LiveOutputs(drive)) >= 2

\* C14: two runs at the same time can reach what runs one after the other
\* never reach: as long as no run was started while another was under way,
\* there are never two live destination containers (unless there were before
\* the first run) and no run's container is deleted while it is being
\* populated; with simultaneous runs both states are reached.
C14_ConflictNeedsOverlap ==
    ~overlapped => /\ ~TwoLiveOutputs
                   /\ \A r \in Procs : ~DeletedWhilePopulated(r)

\* Both processes created their container and both containers are live: each
\* run queried the existing containers before the other one created its own.
C14_Witness ==
    /\ overlapped
    /\ TwoLiveOutputs
    /\ {f.id : f \in LiveOutputs(drive)} = {run[r].output_folder_id : r \in Procs}

\* One run deleted the container the other one is still copying into.
C14_DeletedWitness ==
    /\ overlapped
    /\ \E r \in Procs : \E q \in Procs \ {r} :
           /\ DeletedWhilePopulated(r)
           /\ \E k \in CallsOf(q, {"delete"}) :
                  run[q].calls[k].arg = run[r].output_folder_id
\* The entries of the listing of c that are of this type, in listing order.
KidsOfType(c, type) ==
    SelectSeq(files_list_in_parents(drive, c), LAMBDA f : f.mimeType = type)

\* The position of the first entry whose name no entry's name exceeds.
FirstMaximal(entries) ==
    CHOOSE j \in 1..Len(entries) :
        /\ \A o \in 1..Len(entries) : ~str_lt(entries[j].name, entries[o].name)
        /\ \A i \in 1..(j - 1) :
               \E o \in 1..Len(entries) : str_lt(entries[i].name, entries[o].name)

\* The container a descent goes to after its k-th call.
ListedNext(r, k) ==
    IF k < Len(run[r].calls) THEN run[r].calls[k + 1].arg ELSE run[r].cur

\* C15: (class revision) from a container without direct PDFs the descent
\* goes to the child container that comes first in listing order among those
\* with the maximal name: the choice is a function of the listing.
C15_TieGoesToFirst ==
    rev = "drive_operators" =>
    \A r \in Procs : \A k \in ListCalls(r) :
        LET c == run[r].calls[k].arg
            sub == KidsOfType(c, FOLDER)
        IN  (KidsOfType(c, PDF) = <<>> /\ sub # <<>>)
            => ListedNext(r, k) = sub[FirstMaximal(sub)].id

\* The two first child containers have the same, maximal, name; the descent
\* went into the first one and returned nothing, though the second one holds
\* PDF files.
C15_Witness ==
    /\ rev = "drive_operators"
    /\ \E r \in Procs : \E k \in ListCalls(r) :
           LET c == run[r].calls[k].arg
               sub == KidsOfType(c, FOLDER)
           IN  /\ KidsOfType(c, PDF) = <<>>
               /\ Len(sub) >= 2
               /\ sub[1].name = sub[2].name
               /\ FirstMaximal(sub) = 1
               /\ k < Len(run[r].calls)
               /\ run[r].calls[k + 1].arg = sub[1].id
               /\ KidsOfType(sub[2].id, PDF) # <<>>
               /\ Returned(r, run[r].calls[k].ref)
               /\ run[r].returned[run[r].calls[k].ref] = <<>>
\* What the store held when the run started, but for the live destination
\* containers of then and what was in them.
KeptFromStart(r) ==
    LET d == run[r].drive_start
        gone == Below(d, {f.id : f \in LiveOutputs(d)})
    IN  SelectSeq(d, LAMBDA f : f.id \notin gone)

\* What the store holds now, but for the container the run created (if it
\* has created one) and the copies in it.
AllButOutput(r) ==
    SelectSeq(drive, LAMBDA f : \/ run[r].output_folder_id = ROOT
                                \/ /\ f.id # run[r].output_folder_id
                                   /\ f.parent # run[r].output_folder_id)

\* C16: every delete call of a run deletes a live container with the
\* destination name under the destination parent, as the store had it when
\* the run started; every other item of the store (but the contents of the
\* deleted containers) stays as it was, in place, and the only new items are
\* the container the run created and the copies in it.
C16_DeletesOnlyOldOutputs ==
    \A r \in Procs :
        run[r].pc # "idle"
        => /\ \A k \in CallsOf(r, {"delete"}) :
                  \E f \in LiveOutputs(run[r].drive_start) : f.id = run[r].calls[k].arg
           /\ \A f \in Items(KeptFromStart(r)) : f \in Items(drive)
           /\ \A f \in Items(AllButOutput(r)) : f \in Items(run[r].drive_start)
           /\ run[r].pc = "done" /\ run[r].folders # <<>>
                  => AllButOutput(r) = KeptFromStart(r)

\* A run that deleted a container is done, and the destination parent still
\* holds a document with the destination name and a container with another
\* name.
C16_Witness ==
    \E r \in Procs :
        /\ run[r].pc = "done"
        /\ CallsOf(r, {"delete"}) # {}
        /\ \E f \in Items(drive) : /\ f.parent = output_folder_parent
                                    /\ f.name = output_folder_name
                                    /\ f.mimeType # FOLDER
        /\ \E f \in Items(drive) : /\ f.parent = output_folder_parent
                                    /\ f.name # output_folder_name
                                    /\ f.mimeType = FOLDER
\* The hyperlinks the extraction looks at, in document order.
LinksInScope ==
    IF table_number = 0 THEN find_all_a(html)
    ELSE find_all_a(select_one_table(html, table_number))

\* Those whose target has the folder-URL shape, and the ids in them.
MatchingLinks ==
    SelectSeq(LinksInScope, LAMBDA a : re_search_folder_id(a.href, rev).matched)

MatchingIds ==
    [j \in 1..Len(MatchingLinks) |-> re_search_folder_id(MatchingLinks[j].href, rev).group]

\* The extraction of the run is over, and its result is what is stated.
ExtractedInOrder(r) ==
    /\ [j \in 1..Len(run[r].folders) |-> run[r].folders[j].id] = MatchingIds
    /\ run[r].pc = "done"
           => \A i \in 1..Len(run[r].returned) : \A j \in 1..Len(run[r].returned) :
                 (i < j /\ run[r].folders[i].id = run[r].folders[j].id
                        /\ run[r].returned[i] # <<>>)
                 => /\ run[r].returned[j] = run[r].returned[i]
                    /\ MatchedBefore(r, i) < MatchedBefore(r, j)
                    /\ \A m \in 1..Len(run[r].returned[i]) : \A ref \in {i, j} :
                          \E f \in Items(drive) :
                             /\ f.parent = run[r].output_folder_id
                             /\ f.name = ExpectedCopyName(MatchedBefore(r, ref) + 1,
                                                          run[r].returned[i][m][2])

\* link.contents[0] raised IndexError: the run failed in its first step.
ExtractionRaised(r) == run[r].pc = "failed" /\ Len(run[r].calls) = 1

\* C17: the extraction returns one folder reference for every link in scope
\* whose target has the folder-URL shape, in document order, duplicates
\* included, and nothing for the other links; the files of a folder linked
\* twice are copied twice, under two index prefixes.
C17_LinksInDocumentOrder ==
    \A r \in Procs : run[r].pc \notin {"idle", "export"} => ExtractedInOrder(r)

\* C17, for the runs whose extraction did not raise: the same statement.
C17_InOrderUnlessRaised ==
    \A r \in Procs :
        run[r].pc \notin {"idle", "export"} /\ ~ExtractionRaised(r) => ExtractedInOrder(r)

\* The same folder is linked twice, and its match was copied under two
\* prefixes.
C17_DuplicateWitness ==
    \E r \in Procs :
        /\ run[r].pc = "done"
        /\ Len(run[r].folders) = 2
        /\ run[r].folders[1].id = run[r].folders[2].id
        /\ run[r].returned[1] # <<>>
        /\ Len(ChildNames(drive, run[r].output_folder_id)) = 2 * Len(run[r].returned[1])

\* A link with the folder-URL shape has no child nodes, and the run failed
\* in the extraction.
C17_RaisedWitness ==
    \E r \in Procs :
        /\ ExtractionRaised(r)
        /\ \E j \in 1..Len(MatchingLinks) : MatchingLinks[j].contents = <<>>
\* c has no PDF child and no child container.
DeadEnd(c) == KidsOfType(c, PDF) = <<>> /\ KidsOfType(c, FOLDER) = <<>>

\* C18: the list call of a container without PDF children and without child
\* containers is the last call of its descent, and the descent returns the
\* empty result, for a linked folder as for a container the descent came to.
C18_DeadEndReturnsEmpty ==
    \A r \in Procs : \A k \in ListCalls(r) :
        LET ref == run[r].calls[k].ref
        IN  DeadEnd(run[r].calls[k].arg)
            => /\ Returned(r, ref)
               /\ run[r].returned[ref] = <<>>
               /\ \A j \in ListCalls(r) : run[r].calls[j].ref = ref => j <= k

\* A descent came to a container that holds a document and nothing else, and
\* the run went on to the next linked folder.
C18_Witness ==
    \E r \in Procs : \E k \in ListCalls(r) :
        /\ k > 1
        /\ run[r].calls[k - 1].op = "list"
        /\ run[r].calls[k - 1].ref = run[r].calls[k].ref
        /\ DeadEnd(run[r].calls[k].arg)
        /\ files_list_in_parents(drive, run[r].calls[k].arg) # <<>>
        /\ k < Len(run[r].calls)
        /\ run[r].calls[k + 1].op = "list"

\* A linked folder is empty, and the run is done.
C18_LinkedWitness ==
    \E r \in Procs : \E k \in ListCalls(r) :
        /\ run[r].calls[k].arg = run[r].folders[run[r].calls[k].ref].id
        /\ files_list_in_parents(drive, run[r].calls[k].arg) = <<>>
        /\ run[r].pc = "done"
        /\ rev = "main"
\* The calls of the output writer.
WriterOps == {"list_output", "delete", "create", "copy"}

\* C19: in a run every list call of the folder search comes before every call
\* of the output writer; and when the export call or a list call of the search
\* has failed, the run has failed, has made no call of the writer, and the
\* store is as it was when the run started: the destination container of
\* before and its contents are there and no container was created.
C19_SearchBeforeWriter ==
    \A r \in Procs :
        /\ \A k \in ListCalls(r) : \A j \in CallsOf(r, WriterOps) : k < j
        /\ FailedCalls(r, {"export", "list"}) # {}
               => /\ run[r].pc = "failed"
                  /\ CallsOf(r, WriterOps) = {}
                  /\ drive = run[r].drive_start

\* The list call of the second linked folder failed, and the destination
\* container of before the run is live and has its file.
C19_Witness ==
    \E r \in Procs : \E k \in FailedCalls(r, {"list"}) :
        /\ k > 2
        /\ run[r].returned # <<>>
        /\ \E f \in LiveOutputs(drive) :
               /\ f \in Items(drive0)
               /\ files_list_in_parents(drive, f.id) # <<>>
\* The run is done, had folder references, and no descent returned a file.
DoneWithoutMatch(r) ==
    /\ run[r].pc = "done"
    /\ run[r].folders # <<>>
    /\ Len(run[r].returned) = Len(run[r].folders)
    /\ \A ref \in 1..Len(run[r].returned) : run[r].returned[ref] = <<>>

\* C20: a run with folder references and no matching file at all still
\* replaces the destination: every live container with the destination name
\* that was under the parent is deleted, one container is created and is the
\* only live one, it is empty, and no copy call is made.
C20_EmptyManifestStillReplaces ==
    \A r \in Procs :
        DoneWithoutMatch(r)
        => /\ CallsOf(r, {"copy"}) = {}
           /\ Cardinality(CallsOf(r, {"create"})) = 1
           /\ \A f \in LiveOutputs(run[r].drive_start) :
                  /\ f.id \notin Ids(drive)
                  /\ \E k \in CallsOf(r, {"delete"}) : run[r].calls[k].arg = f.id
           /\ {f.id : f \in LiveOutputs(drive)} = {run[r].output_folder_id}
           /\ run[r].output_folder_id \notin Ids(run[r].drive_start)
           /\ files_list_in_parents(drive, run[r].output_folder_id) = <<>>

\* Such a run is done, and the destination container of before, which held a
\* file, is gone.
C20_Witness ==
    \E r \in Procs :
        /\ DoneWithoutMatch(r)
        /\ \E f \in LiveOutputs(run[r].drive_start) :
               /\ files_list_in_parents(run[r].drive_start, f.id) # <<>>
               /\ f.id \notin Ids(drive)
\* ------------------------------------------- the two revisions compared
\* KeywordFileSearcher.find_matching_files_in_folder as a function of the
\* store: the containers it lists, in order, and the pairs it returns.
RECURSIVE find_matching_files_in_folder(_, _, _)
find_matching_files_in_folder(d, folder_id, kws) ==
    LET files == files_list_in_parents(d, folder_id)
        pdf_files == pdf_files_of(files)
        folders == folders_of(files)
    IN  IF should_descend(pdf_files, folders)
        THEN LET below == find_matching_files_in_folder(
                              d, descend_into(folder_id, max_by_name(folders)), kws)
             IN  [listed |-> <<folder_id>> \o below.listed, files |-> below.files]
        ELSE [listed |-> <<folder_id>>, files |-> keyword_filter(pdf_files, kws)]

\* The search of linked folder ref is over: it returned, or it raised.
DescentOver(r, ref) ==
    \/ Returned(r, ref)
    \/ /\ run[r].pc = "failed"
       /\ run[r].fi = ref
       /\ run[r].calls[Len(run[r].calls)].op = "list"

\* The containers the search of linked folder ref listed, in order.
ListedBy(r, ref) ==
    [j \in 1..Len(DescentOf(r, ref)) |-> DescentOf(r, ref)[j].arg]

\* The search of linked folder ref made the list calls of, and returned the
\* pairs of, the class revision's function on the store of the run's start.
ResolvedAsClass(r, ref) ==
    LET c == find_matching_files_in_folder(run[r].drive_start, run[r].folders[ref].id,
                                           keywords)
    IN  /\ Returned(r, ref)
        /\ run[r].returned[ref] = c.files
        /\ ListedBy(r, ref) = c.listed

\* C21: in either revision, a search of a linked folder that is over has made
\* the same list calls and returned the same (id, name) pairs as
\* KeywordFileSearcher.find_matching_files_in_folder makes and returns for that
\* folder, store and keyword list, descent into a subfolder included.
C21_RevisionsResolveAlike ==
    \A r \in Procs : \A ref \in 1..Len(run[r].folders) :
        DescentOver(r, ref) => ResolvedAsClass(r, ref)

\* C21, but for the searches of the script revision that must descend.
C21_AlikeWithoutDescent ==
    \A r \in Procs : \A ref \in 1..Len(run[r].folders) :
        /\ DescentOver(r, ref)
        /\ \/ rev = "drive_operators"
           \/ Len(find_matching_files_in_folder(run[r].drive_start, run[r].folders[ref].id,
                                                keywords).listed) = 1
        => ResolvedAsClass(r, ref)

\* The script revision listed a linked folder without PDFs and with a
\* subfolder, and failed, where the class revision lists the subfolder and
\* returns a file.
C21_Witness ==
    \E r \in Procs :
        /\ rev = "main"
        /\ run[r].pc = "failed"
        /\ DescentOver(r, run[r].fi)
        /\ ~Returned(r, run[r].fi)
        /\ LET c == find_matching_files_in_folder(run[r].drive_start,
                                                  run[r].folders[run[r].fi].id, keywords)
           IN  Len(c.listed) >= 2 /\ c.files # <<>> /\ Len(ListedBy(r, run[r].fi)) = 1
====
